---- MODULE Spec2Model ----
(***************************************************************************)
(* Metricon AI Assistant: the document-to-catalog pipeline (chunker.py),   *)
(* the index loader (data_ingestion.py) and the answer path (app.py).      *)
(*                                                                         *)
(* Strings.  A Python str is modelled as a sequence of runs: the entry 0   *)
(* is ONE whitespace character, an entry n > 0 is a run of n characters    *)
(* none of which is whitespace.  <<3, 0, 0, 60>> is a 3-letter word, two   *)
(* blanks and a 60-letter word.  Lengths are kept exactly, which is what   *)
(* the length threshold of split_text and the [:100] slice of the          *)
(* enrichment fallback depend on; the letters themselves are not kept.     *)
(* Fixed texts of the program (messages, titles) are TLA+ strings.         *)
(***************************************************************************)
EXTENDS Integers, Sequences, FiniteSets, TLC

VARIABLES
    \* ---- one call of split_text (chunker.py) ----
    sp_pc,          \* "entry" | "loop" | "returned"
    text,           \* argument text
    chunk_size,     \* argument chunk_size
    overlap,        \* argument overlap
    words,          \* local words
    chunks,         \* local chunks
    start,          \* local start
    spans,          \* history: <<start, end>> of the window of each appended chunk
    \* ---- one run of agentic_chunking_pipeline (chunker.py) ----
    pb_pc,          \* "loop" | "crashed" (uncaught exception) | "saving" | "done"
    documents,      \* local documents, as load_pdfs returned them
    doc_i,          \* number of documents the outer loop has taken
    raw_chunks,     \* local raw_chunks of the current document
    chunk_i,        \* number of raw chunks of it the inner loop has taken
    all_chunks,     \* local all_chunks
    chunk_id,       \* local chunk_id
    catalog_file,   \* chunker/chunks.json: [exists, complete, chunks]
    last_reply,     \* history: the language-model reply of the latest enrich_chunk call
    emitted,        \* history: the source of every raw chunk split_text returned, in order
    \* ---- the vector index and its loader (data_ingestion.py) ----
    index,          \* Qdrant collection metricon_rag: [exists, points], points: id -> point
    loader_pc,      \* data_ingestion run: "idle" | "deleted" | "created" | "read" |
                    \*   "loaded" | "crashed" (uncaught exception)
    ingested,       \* local chunks of the latest ingest_chunks
    replaced,       \* history: the index the latest create_collection found
    loader_exc,     \* history: the exception the latest run of the loader ended on
    \* ---- one session of the chat (app.py) ----
    history,        \* value of the chatbot component
    sources_box,    \* value of the sources_box component
    top_k,          \* value of the top_k slider
    show_sources,   \* value of the show_sources checkbox
    respond_call,   \* the event of send_btn.click in flight, if any
    set_question_call,  \* the event of btn1.click in flight, if any
    last            \* history: what the latest chat event that ended did

splitVars == <<sp_pc, text, chunk_size, overlap, words, chunks, start, spans>>
buildVars == <<pb_pc, documents, doc_i, raw_chunks, chunk_i, all_chunks, chunk_id,
               catalog_file, last_reply, emitted>>
indexVars == <<index, loader_pc, ingested, replaced, loader_exc>>
chatVars == <<history, sources_box, top_k, show_sources, respond_call,
              set_question_call, last>>
serveVars == <<indexVars, chatVars>>
vars == <<splitVars, buildVars, serveVars>>

(***************************************************************************)
(* Bounds of the model.                                                    *)
(***************************************************************************)
MaxTextLen == 5        \* runs in an input text of split_text
MaxChunkSize == 3      \* chunk_size argument is drawn from 1..MaxChunkSize
MaxOverlap == 3        \* overlap argument is drawn from 0..MaxOverlap
MaxChunks == 4         \* split_text stops being followed once it holds this many chunks
MaxBack == 3           \* split_text stops being followed once start < -MaxBack
MaxDocs == 2           \* documents load_pdfs returns in one pipeline run
MaxExchanges == 2      \* exchanges of the history an event is triggered on, its own included

\* Run lengths an input text is built from: a blank, a one-letter word piece,
\* a 30-letter piece (two of them joined pass the threshold), a 60-letter
\* piece (passes it alone).
RunAlphabet == {0, 1, 30, 60}

(***************************************************************************)
(* Python string and list primitives.                                      *)
(***************************************************************************)
\* len(s): number of characters (of the runs lo..hi, by halves)
RECURSIVE CharLenRange(_, _, _)
CharLenRange(s, lo, hi) ==
    IF lo > hi THEN 0
    ELSE IF lo = hi THEN (IF s[lo] = 0 THEN 1 ELSE s[lo])
    ELSE LET mid == (lo + hi) \div 2
         IN  CharLenRange(s, lo, mid) + CharLenRange(s, mid + 1, hi)

CharLen(s) == CharLenRange(s, 1, Len(s))

\* s.strip(): leading and trailing whitespace removed
Strip(s) ==
    LET nz == {i \in 1..Len(s) : s[i] # 0}
    IN  IF nz = {} THEN <<>>
        ELSE SubSeq(s, CHOOSE i \in nz : \A j \in nz : i <= j,
                       CHOOSE i \in nz : \A j \in nz : j <= i)

\* s.split(): the maximal runs of non-whitespace characters, in order.  A word
\* is represented by its length; adjacent non-blank runs are one word.
\* Computed by halves: the words of s[lo..mid] and of s[mid+1..hi], the last
\* and the first of which are one word when no blank separates them.
RECURSIVE SplitRange(_, _, _)
SplitRange(s, lo, hi) ==
    IF lo > hi THEN <<>>
    ELSE IF lo = hi THEN (IF s[lo] = 0 THEN <<>> ELSE <<s[lo]>>)
    ELSE LET mid == (lo + hi) \div 2
             l == SplitRange(s, lo, mid)
             r == SplitRange(s, mid + 1, hi)
         IN  IF s[mid] # 0 /\ s[mid + 1] # 0
             THEN SubSeq(l, 1, Len(l) - 1) \o <<l[Len(l)] + r[1]>> \o Tail(r)
             ELSE l \o r

Split(s) == SplitRange(s, 1, Len(s))

\* " ".join(ws): the words separated by exactly one blank
Join(ws) ==
    IF ws = <<>> THEN <<>>
    ELSE [i \in 1..(2 * Len(ws) - 1) |-> IF i % 2 = 1 THEN ws[(i + 1) \div 2] ELSE 0]

\* index normalisation of a Python slice bound on a list of length n
SliceIndex(x, n) ==
    IF x < 0 THEN (IF x + n < 0 THEN 0 ELSE x + n)
    ELSE IF x > n THEN n ELSE x

\* ws[lo:hi]
PySlice(ws, lo, hi) ==
    LET a == SliceIndex(lo, Len(ws))
        b == SliceIndex(hi, Len(ws))
    IN  IF a >= b THEN <<>> ELSE SubSeq(ws, a + 1, b)

(***************************************************************************)
(* split_text (chunker.py:45-55).                                          *)
(***************************************************************************)
MinChunkChars == 50

\* chunker.py:52  the test that keeps a window
KeepChunk(chunk) == CharLen(Strip(chunk)) > MinChunkChars

\* chunker.py:54  start += chunk_size - overlap
Advance(st, cs, ov) == st + (cs - ov)

\* chunker.py:50-54  one iteration of the while loop on (chunks, start)
LoopBody(ws, cs, ov, cks, st) ==
    LET end == st + cs
        chunk == Join(PySlice(ws, st, end))
    IN  [chunks |-> IF KeepChunk(chunk) THEN Append(cks, chunk) ELSE cks,
         start  |-> Advance(st, cs, ov),
         kept   |-> KeepChunk(chunk),
         end    |-> end]

\* chunker.py:46-48
split_text_enter ==
    /\ sp_pc = "entry"
    /\ words' = Split(text)
    /\ chunks' = <<>>
    /\ start' = 0
    /\ sp_pc' = "loop"
    /\ UNCHANGED <<text, chunk_size, overlap, spans>>
    /\ UNCHANGED <<buildVars, serveVars>>

\* chunker.py:49-54  while start < len(words): ...
split_text_iterate ==
    /\ sp_pc = "loop"
    /\ start < Len(words)
    /\ Len(chunks) < MaxChunks
    /\ start >= -MaxBack
    /\ LET r == LoopBody(words, chunk_size, overlap, chunks, start)
       IN  /\ chunks' = r.chunks
           /\ start' = r.start
           /\ spans' = IF r.kept THEN Append(spans, <<start, r.end>>) ELSE spans
    /\ UNCHANGED <<sp_pc, text, chunk_size, overlap, words>>
    /\ UNCHANGED <<buildVars, serveVars>>

\* chunker.py:49, 55  loop exit and return chunks
split_text_return ==
    /\ sp_pc = "loop"
    /\ ~(start < Len(words))
    /\ sp_pc' = "returned"
    /\ UNCHANGED <<text, chunk_size, overlap, words, chunks, start, spans>>
    /\ UNCHANGED <<buildVars, serveVars>>

\* chunker.py:45-55  split_text as a function of its arguments (used where the
\* loop is known to end, chunk_size > overlap)
RECURSIVE SplitLoop(_, _, _, _, _)
SplitLoop(ws, cs, ov, cks, st) ==
    IF st < Len(ws)
    THEN LET r == LoopBody(ws, cs, ov, cks, st)
         IN  SplitLoop(ws, cs, ov, r.chunks, r.start)
    ELSE cks

split_text(t, cs, ov) == SplitLoop(Split(t), cs, ov, <<>>, 0)

DefaultChunkSize == 400
DefaultOverlap == 50

(***************************************************************************)
(* enrich_chunk (chunker.py:60-105).                                       *)
(*                                                                         *)
(* A reply of the language model is [status, fenced, doc]: status "raise"  *)
(* when invoke_model (or reading its envelope) raises, else "ok" with the  *)
(* text of the reply: doc is what the text holds once code-fence markers   *)
(* are removed, fenced says whether the markers are there.  A JSON         *)
(* document is [type, members]: type "invalid" for text that is no JSON,   *)
(* "array" (standing for every JSON value that is not an object) or        *)
(* "object", whose members map the keys present to their values.  Titles   *)
(* and categories are TLA+ strings; summaries are in the run               *)
(* representation, as the fallback summary is a slice of the chunk text.   *)
(***************************************************************************)
Fields == {"title", "summary", "keywords", "category", "importance"}

\* values the language model gives the fields it returns
ModelValue(k) ==
    CASE k = "title"      -> "Slab and frame stages"
      [] k = "summary"    -> <<3, 0, 5>>
      [] k = "keywords"   -> <<"slab", "frame">>
      [] k = "category"   -> "Building Process"
      [] k = "importance" -> 8

NotJson == [type |-> "invalid", members |-> <<>>]
JArray == [type |-> "array", members |-> <<>>]
JObject(keys) == [type |-> "object", members |-> [k \in keys |-> ModelValue(k)]]

RaiseReply == [status |-> "raise", fenced |-> FALSE, doc |-> NotJson]
TextReply(fenced, doc) == [status |-> "ok", fenced |-> fenced, doc |-> doc]

\* the replies the model draws from: an exception, text that is no JSON, a
\* fenced object with the five fields, objects with fields missing, a JSON
\* value that is no object
Replies ==
    { RaiseReply,
      TextReply(FALSE, NotJson),
      TextReply(TRUE, JObject(Fields)),
      TextReply(FALSE, JObject({"title", "summary"})),
      TextReply(FALSE, JObject({})),
      TextReply(FALSE, JArray) }

\* the largest k in lo..hi such that the first k runs of s hold at most n
\* characters (the first lo runs do)
RECURSIVE FitRuns(_, _, _, _)
FitRuns(s, n, lo, hi) ==
    IF lo >= hi THEN lo
    ELSE LET mid == (lo + hi + 1) \div 2
         IN  IF CharLenRange(s, 1, mid) <= n
             THEN FitRuns(s, n, mid, hi)
             ELSE FitRuns(s, n, lo, mid - 1)

\* s[:n] for n >= 0: the runs that fit whole, then the part of the next run
\* (a word, cut) that fills the n characters
Prefix(s, n) ==
    LET k == FitRuns(s, n, 0, Len(s))
        rest == n - CharLenRange(s, 1, k)
    IN  IF k < Len(s) /\ rest > 0
        THEN Append(SubSeq(s, 1, k), rest)
        ELSE SubSeq(s, 1, k)

\* chunker.py:93  raw.strip().replace("```json", "").replace("```", "").strip()
StripFences(raw) == [raw EXCEPT !.fenced = FALSE]

\* json.loads raises on text that still carries fence markers or is no JSON
JsonLoadsRaises(raw) == raw.fenced \/ raw.doc.type = "invalid"

SummaryChars == 100
FallbackImportance == 5

\* chunker.py:99-105  the dict of the except branch
FallbackMetadata(chunk_text) ==
    [type |-> "object",
     members |-> [title |-> "General Information",
                  summary |-> Prefix(chunk_text, SummaryChars),
                  keywords |-> <<>>,
                  category |-> "General",
                  importance |-> FallbackImportance]]

\* chunker.py:75-105  what enrich_chunk returns on a reply; it never raises
enrich_chunk(chunk_text, source, reply) ==
    IF reply.status = "raise" THEN FallbackMetadata(chunk_text)
    ELSE LET raw == StripFences(reply)
         IN  IF JsonLoadsRaises(raw) THEN FallbackMetadata(chunk_text)
             ELSE raw.doc

(***************************************************************************)
(* agentic_chunking_pipeline (chunker.py:110-144).                         *)
(***************************************************************************)
DefaultImportance == 5

\* enriched.get(k, default) on a dict
DictGet(d, k, default) == IF k \in DOMAIN d.members THEN d.members[k] ELSE default

\* chunker.py:124-133  .get raises AttributeError on a value that is no dict
GetRaises(enriched) == enriched.type # "object"

\* chunker.py:124-133
CatalogEntry(id, source, chunk, enriched) ==
    [id |-> id,
     source |-> source,
     text |-> chunk,
     title |-> DictGet(enriched, "title", ""),
     summary |-> DictGet(enriched, "summary", <<>>),
     keywords |-> DictGet(enriched, "keywords", <<>>),
     category |-> DictGet(enriched, "category", "General"),
     importance |-> DictGet(enriched, "importance", DefaultImportance)]

\* mutant of NextChunkId: the counter is not advanced
NextChunkId_Stuck(id) == id

\* chunker.py:135  chunk_id += 1
NextChunkId(id) == id + 1

\* chunker.py:115-118  the outer loop takes the next document and splits it
pipeline_next_document ==
    /\ pb_pc = "loop"
    /\ chunk_i = Len(raw_chunks)
    /\ doc_i < Len(documents)
    /\ LET doc == documents[doc_i + 1]
           rc == split_text(doc.text, DefaultChunkSize, DefaultOverlap)
       IN  /\ raw_chunks' = rc
           /\ emitted' = emitted \o [k \in 1..Len(rc) |-> doc.source]
    /\ doc_i' = doc_i + 1
    /\ chunk_i' = 0
    /\ UNCHANGED <<pb_pc, documents, all_chunks, chunk_id, catalog_file, last_reply>>
    /\ UNCHANGED <<splitVars, serveVars>>

\* chunker.py:120-136  one iteration of the inner loop: enrich, append, count.
\* An exception that leaves the loop body ends the run before the save.
pipeline_enrich_chunk ==
    /\ pb_pc = "loop"
    /\ chunk_i < Len(raw_chunks)
    /\ \E reply \in Replies :
         LET source == documents[doc_i].source
             chunk == raw_chunks[chunk_i + 1]
             enriched == enrich_chunk(chunk, source, reply)
         IN  /\ last_reply' = reply
             /\ IF GetRaises(enriched)
                THEN /\ pb_pc' = "crashed"
                     /\ UNCHANGED <<all_chunks, chunk_id, chunk_i>>
                ELSE /\ all_chunks' = Append(all_chunks,
                                             CatalogEntry(chunk_id, source, chunk, enriched))
                     /\ chunk_id' = NextChunkId(chunk_id)
                     /\ chunk_i' = chunk_i + 1
                     /\ UNCHANGED pb_pc
    /\ UNCHANGED <<documents, doc_i, raw_chunks, catalog_file, emitted>>
    /\ UNCHANGED <<splitVars, serveVars>>

\* chunker/chunks.json: absent; opened for writing and not yet written to the
\* end (json.load raises on what it holds); holding a catalog
NoFile == [exists |-> FALSE, complete |-> FALSE, chunks |-> <<>>]
OpenedFile == [exists |-> TRUE, complete |-> FALSE, chunks |-> <<>>]
SavedFile(c) == [exists |-> TRUE, complete |-> TRUE, chunks |-> c]

\* the loops of the run are over (chunker.py:115, 120)
LoopsDone ==
    /\ chunk_i = Len(raw_chunks)
    /\ doc_i = Len(documents)

\* chunker.py:139-140  open(output_path, "w") creates the file or empties it
pipeline_open ==
    /\ pb_pc = "loop"
    /\ LoopsDone
    /\ catalog_file' = OpenedFile
    /\ pb_pc' = "saving"
    /\ UNCHANGED <<documents, doc_i, raw_chunks, chunk_i, all_chunks, chunk_id,
                   last_reply, emitted>>
    /\ UNCHANGED <<splitVars, serveVars>>

\* chunker.py:141-144  json.dump(all_chunks, f) and the close of the file
pipeline_dump ==
    /\ pb_pc = "saving"
    /\ catalog_file' = SavedFile(all_chunks)
    /\ pb_pc' = "done"
    /\ UNCHANGED <<documents, doc_i, raw_chunks, chunk_i, all_chunks, chunk_id,
                   last_reply, emitted>>
    /\ UNCHANGED <<splitVars, serveVars>>

\* A text of n one-letter words separated by single blanks.
DocText(n) == Join([i \in 1..n |-> 1])

\* Texts of the documents a run is given: one 10-letter word (one window,
\* dropped), one 60-letter word (one chunk), 400 one-letter words (two
\* windows, both kept).
DocTexts == {<<10>>, <<60>>, DocText(DefaultChunkSize)}

\* load_pdfs returns one document per file, file names distinct
DocumentsOf(texts) == [i \in 1..Len(texts) |-> [source |-> <<"doc", i>>, text |-> texts[i]]]

DocumentLists ==
    UNION { {DocumentsOf(texts) : texts \in [1..m -> DocTexts]} : m \in 0..MaxDocs }

\* Texts of the documents of the runs that are followed together with the
\* loader: one chunk each
LoaderDocTexts == {<<60>>, <<30, 0, 30>>}

LoaderDocumentLists ==
    UNION { {DocumentsOf(texts) : texts \in [1..m -> LoaderDocTexts]} : m \in 0..MaxDocs }

\* chunker.py:120-135  the entries one document adds to the catalog when the
\* language model gives `reply` for each of its chunks (a reply enrich_chunk
\* makes a dict of), the first of them under id first_id
DocumentEntries(source, rc, reply, first_id) ==
    [i \in 1..Len(rc) |->
        CatalogEntry(first_id + i - 1, source, rc[i], enrich_chunk(rc[i], source, reply))]

\* chunker.py:112-136  all_chunks after the first n documents
RECURSIVE ChunksAfter(_, _, _)
ChunksAfter(docs, reply, n) ==
    IF n = 0 THEN <<>>
    ELSE LET before == ChunksAfter(docs, reply, n - 1)
             rc == split_text(docs[n].text, DefaultChunkSize, DefaultOverlap)
         IN  before \o DocumentEntries(docs[n].source, rc, reply, Len(before))

\* chunker.py:110-144  the catalog a run on docs saves and returns
agentic_chunking_pipeline(docs, reply) == ChunksAfter(docs, reply, Len(docs))

\* the catalog the chat is served from: two documents of one chunk each, every
\* chunk enriched by the language model
ChatDocuments == DocumentsOf(<< <<60>>, <<30, 0, 30>> >>)
ChatReply == TextReply(TRUE, JObject(Fields))
ChatCatalog == agentic_chunking_pipeline(ChatDocuments, ChatReply)

\* the catalog a run finds in chunks.json when an earlier run saved one
EarlierCatalog == ChatCatalog

\* chunker.py:111-113  a run that has loaded docs, before its first document
RunStarted(docs) ==
    /\ pb_pc = "loop"
    /\ documents = docs
    /\ doc_i = 0
    /\ raw_chunks = <<>>
    /\ chunk_i = 0
    /\ all_chunks = <<>>
    /\ chunk_id = 0
    /\ last_reply = RaiseReply
    /\ emitted = <<>>

\* chunker.py:144  a run on docs (one at least) that has saved and returned,
\* the language model having given `reply` for every chunk
RunDone(docs, reply) ==
    /\ pb_pc = "done"
    /\ documents = docs
    /\ doc_i = Len(docs)
    /\ raw_chunks = split_text(docs[Len(docs)].text, DefaultChunkSize, DefaultOverlap)
    /\ chunk_i = Len(raw_chunks)
    /\ all_chunks = agentic_chunking_pipeline(docs, reply)
    /\ chunk_id = Len(all_chunks)
    /\ catalog_file = SavedFile(all_chunks)
    /\ last_reply = reply
    /\ emitted = [i \in 1..Len(all_chunks) |-> all_chunks[i].source]

BuildInit ==
    /\ \E docs \in DocumentLists : RunStarted(docs)
    /\ catalog_file \in {NoFile, SavedFile(EarlierCatalog)}

BuildNext ==
    \/ pipeline_next_document
    \/ pipeline_enrich_chunk
    \/ pipeline_open
    \/ pipeline_dump

\* the pipeline before it is started (in the other specifications)
BuildIdle ==
    /\ pb_pc = "loop"
    /\ documents = <<>>
    /\ doc_i = 0
    /\ raw_chunks = <<>>
    /\ chunk_i = 0
    /\ all_chunks = <<>>
    /\ chunk_id = 0
    /\ catalog_file = NoFile
    /\ last_reply = RaiseReply
    /\ emitted = <<>>

\* all texts of at most n runs over RunAlphabet
TextsUpTo(n) == UNION {[1..k -> RunAlphabet] : k \in 0..n}

SplitInit ==
    /\ sp_pc = "entry"
    /\ text \in TextsUpTo(MaxTextLen)
    /\ chunk_size \in 1..MaxChunkSize
    /\ overlap \in 0..MaxOverlap
    /\ words = <<>>
    /\ chunks = <<>>
    /\ start = 0
    /\ spans = <<>>

SplitNext == split_text_enter \/ split_text_iterate \/ split_text_return

\* split_text before it is called (in the other specifications)
SplitIdle ==
    /\ sp_pc = "entry"
    /\ text = <<>>
    /\ chunk_size = DefaultChunkSize
    /\ overlap = DefaultOverlap
    /\ words = <<>>
    /\ chunks = <<>>
    /\ start = 0
    /\ spans = <<>>

(***************************************************************************)
(* data_ingestion.py: create_collection and ingest_chunks, run in this     *)
(* order by the script.  The collection is [exists, points]; a point is    *)
(* [vector, payload], its vector being whatever the embedder makes of the  *)
(* composed string, which the model keeps as the string's three parts.     *)
(* An exception no code catches ends the script; loader_exc names it.      *)
(***************************************************************************)
NoCollection == [exists |-> FALSE, points |-> <<>>]
EmptyCollection == [exists |-> TRUE, points |-> <<>>]

\* mutant of DeleteExisting: the existing collection is left in place
DeleteExisting_Skip(idx) == idx

\* data_ingestion.py:27-30  delete the collection when it is listed
DeleteExisting(idx) == IF idx.exists THEN NoCollection ELSE idx

\* data_ingestion.py:49-50  the string that is embedded
TextToEmbed(chunk) == <<chunk.title, chunk.summary, chunk.text>>

\* data_ingestion.py:52-64
PointStruct(chunk) ==
    [vector |-> TextToEmbed(chunk),
     payload |-> [text |-> chunk.text,
                  title |-> chunk.title,
                  summary |-> chunk.summary,
                  keywords |-> chunk.keywords,
                  category |-> chunk.category,
                  importance |-> chunk.importance,
                  source |-> chunk.source]]

\* qdrant.upsert: every point is stored under its id, replacing a point that
\* has the id; of several points with one id the last one stays
Upsert(points, cks) ==
    LET ids == {cks[i].id : i \in 1..Len(cks)}
        lastOf(id) == CHOOSE i \in 1..Len(cks) :
                         /\ cks[i].id = id
                         /\ \A j \in 1..Len(cks) : cks[j].id = id => j <= i
    IN  [id \in (DOMAIN points) \cup ids |->
            IF id \in ids THEN PointStruct(cks[lastOf(id)]) ELSE points[id]]

\* data_ingestion.py:72-73, 27-30  the script is started (again, once an
\* earlier run has ended) and create_collection deletes the collection
create_collection_delete ==
    /\ loader_pc \in {"idle", "loaded", "crashed"}
    /\ replaced' = index
    /\ index' = DeleteExisting(index)
    /\ loader_pc' = "deleted"
    /\ loader_exc' = ""
    /\ UNCHANGED ingested
    /\ UNCHANGED <<splitVars, buildVars, chatVars>>

\* data_ingestion.py:32-36  creating a collection that exists is refused by
\* the service, and the exception ends the script
create_collection_create ==
    /\ loader_pc = "deleted"
    /\ IF index.exists
       THEN loader_pc' = "crashed" /\ loader_exc' = "UnexpectedResponse" /\ UNCHANGED index
       ELSE loader_pc' = "created" /\ index' = EmptyCollection /\ UNCHANGED loader_exc
    /\ UNCHANGED <<ingested, replaced>>
    /\ UNCHANGED <<splitVars, buildVars, chatVars>>

\* data_ingestion.py:42-43  open chunks.json and json.load it: open raises
\* when the file is absent, json.load when the file does not hold a whole
\* JSON document; either exception ends the script
ingest_chunks_read ==
    /\ loader_pc = "created"
    /\ IF ~catalog_file.exists
       THEN loader_pc' = "crashed" /\ loader_exc' = "FileNotFoundError" /\ UNCHANGED ingested
       ELSE IF ~catalog_file.complete
       THEN loader_pc' = "crashed" /\ loader_exc' = "JSONDecodeError" /\ UNCHANGED ingested
       ELSE loader_pc' = "read" /\ ingested' = catalog_file.chunks /\ UNCHANGED loader_exc
    /\ UNCHANGED <<index, replaced>>
    /\ UNCHANGED <<splitVars, buildVars, chatVars>>

\* data_ingestion.py:45-67  build the points of the chunks read, one upsert
ingest_chunks_upsert ==
    /\ loader_pc = "read"
    /\ IF index.exists
       THEN /\ index' = [index EXCEPT !.points = Upsert(index.points, ingested)]
            /\ loader_pc' = "loaded"
            /\ UNCHANGED loader_exc
       ELSE /\ loader_pc' = "crashed"
            /\ loader_exc' = "UnexpectedResponse"
            /\ UNCHANGED index
    /\ UNCHANGED <<ingested, replaced>>
    /\ UNCHANGED <<splitVars, buildVars, chatVars>>

(***************************************************************************)
(* app.py: rag_answer and the event listeners.                             *)
(*                                                                         *)
(* An event of a listener takes the values of its input components when   *)
(* it is triggered, runs the handler on them, and its outputs replace the  *)
(* output components when the handler returns.  The handler waits on the   *)
(* embedder, the index and the language model in between, and events of    *)
(* other listeners of the session are not held back meanwhile; a listener  *)
(* takes no second event while one of its own is pending.  The model       *)
(* follows the listener of send_btn (respond), the listener of one quick-  *)
(* question button (set_question) and the listener of clear_btn.  A call   *)
(* in flight is [pc, question, history, top_k, show_sources, results]: pc  *)
(* "idle", "triggered" (inputs taken) or "queried" (the index has          *)
(* answered, or the embedder has raised).                                  *)
(*                                                                         *)
(* What the collaborators do is drawn per call: the embedder returns or    *)
(* raises; the index ranks the ids of the collection by descending         *)
(* similarity to the question; the reply of the language model is          *)
(* [status, text], status "ok" (text the answer), "raise" (text the        *)
(* exception message) or "malformed" (the envelope lacks the output text,  *)
(* a KeyError).  The leading symbol of the two fixed messages is left out  *)
(* of the strings.                                                         *)
(***************************************************************************)
SliderMin == 1
SliderMax == 7
DefaultTopK == 3
DefaultShowSources == TRUE

RefusalMessage == "No relevant information found. Please contact Metricon on 1300 786 773."
EmbedErrorMessage == "encode failed"
NotFoundMessage == "Not found: Collection `metricon_rag` doesn't exist!"
KeyErrorMessage == "'output'"

EmptyText == [placeholder |-> FALSE, blocks |-> <<>>]
Placeholder == [placeholder |-> TRUE, blocks |-> <<>>]

UserTurn(question) == [role |-> "user", content |-> question]
AssistantTurn(content) == [role |-> "assistant", content |-> content]

\* app.py:88  f"... Error: {str(e)}"
ErrorContent(msg) == "Error: " \o msg

\* app.py:32-36  the first `limit` points of the ranking
QueryPoints(idx, ranking, limit) ==
    LET n == IF limit < Len(ranking) THEN limit ELSE Len(ranking)
    IN  [i \in 1..n |-> idx.points[ranking[i]].payload]

\* app.py:31-36  what encode and query_points leave: status "encode_raised",
\* "not_found" (the collection is missing, query_points raises) or "ok" with
\* the points
NoResults == [status |-> "none", points |-> <<>>]

QueryResults(idx, limit, embed, ranking) ==
    IF embed = "raise" THEN [status |-> "encode_raised", points |-> <<>>]
    ELSE IF ~idx.exists THEN [status |-> "not_found", points |-> <<>>]
    ELSE [status |-> "ok", points |-> QueryPoints(idx, ranking, limit)]

\* mutant of HasNoPoints: the empty result is not told apart
HasNoPoints_Never(points) == FALSE

\* app.py:38  if not results.points
HasNoPoints(points) == points = <<>>

\* app.py:46-48
ContextChunk(p) == [category |-> p.category, title |-> p.title, text |-> p.text]

\* app.py:49-52
SourceBlock(p) ==
    [title |-> p.title, source |-> p.source, category |-> p.category,
     importance |-> p.importance]

\* app.py:83
SourcesText(points, show) ==
    IF show
    THEN [placeholder |-> FALSE, blocks |-> [i \in 1..Len(points) |-> SourceBlock(points[i])]]
    ELSE EmptyText

\* what leaves the try block: a return value or an exception
Returned(hist, sources, calls, npoints, context) ==
    [exc |-> FALSE, msg |-> "", history |-> hist, sources |-> sources,
     calls |-> calls, npoints |-> npoints, context |-> context]

Raised(hist, msg, calls, npoints, context) ==
    [exc |-> TRUE, msg |-> msg, history |-> hist, sources |-> EmptyText,
     calls |-> calls, npoints |-> npoints, context |-> context]

\* app.py:31-84  the try block, on what encode and query_points left and the
\* reply of the language model
RagTry(question, hist, show, results, llm) ==
    IF results.status = "encode_raised"
    THEN Raised(hist, EmbedErrorMessage, <<"encode">>, -1, <<>>)
    ELSE IF results.status = "not_found"
    THEN Raised(hist, NotFoundMessage, <<"encode", "query_points">>, -1, <<>>)
    ELSE LET points == results.points
             context == [i \in 1..Len(points) |-> ContextChunk(points[i])]
             calls == <<"encode", "query_points", "invoke_model">>
         IN  IF HasNoPoints(points)
             THEN Returned(hist \o <<UserTurn(question), AssistantTurn(RefusalMessage)>>,
                           EmptyText, <<"encode", "query_points">>, 0, <<>>)
             ELSE IF llm.status = "raise"
             THEN Raised(hist, llm.text, calls, Len(points), context)
             ELSE IF llm.status = "malformed"
             THEN Raised(hist, KeyErrorMessage, calls, Len(points), context)
             ELSE Returned(hist \o <<UserTurn(question), AssistantTurn(llm.text)>>,
                           SourcesText(points, show), calls, Len(points), context)

\* mutant of ExceptBranch: the exception is raised again
ExceptBranch_Reraise(question, t) ==
    [raised |-> TRUE, history |-> t.history, sources |-> EmptyText]

\* app.py:86-89  the except branch, on the history as the try block left it
ExceptBranch(question, t) ==
    [raised |-> FALSE,
     history |-> t.history \o <<UserTurn(question), AssistantTurn(ErrorContent(t.msg))>>,
     sources |-> EmptyText]

\* app.py:29-89
rag_answer(question, hist, show, results, llm) ==
    LET t == RagTry(question, hist, show, results, llm)
        out == IF t.exc THEN ExceptBranch(question, t)
               ELSE [raised |-> FALSE, history |-> t.history, sources |-> t.sources]
    IN  [raised |-> out.raised, history |-> out.history, sources |-> out.sources,
         error |-> t.msg, failed |-> t.exc, calls |-> t.calls, npoints |-> t.npoints,
         context |-> t.context]

\* every order of the ids of a collection
Rankings(idx) ==
    LET ids == DOMAIN idx.points
        n == Cardinality(ids)
    IN  {r \in [1..n -> ids] : \A i, j \in 1..n : i # j => r[i] # r[j]}

EmbedOutcomes == {"ok", "raise"}

LlmReplies ==
    { [status |-> "ok", text |-> "About twelve months on average."],
      [status |-> "raise", text |-> "ThrottlingException"],
      [status |-> "malformed", text |-> ""] }

\* texts typed into msg, and the text of the quick-question button
TypedMessages == {"How long does construction take?"}
QuickQuestions == {"What is the building process at Metricon?"}

\* positions the slider is left at before the conversation
TopKValues == {SliderMin, SliderMax}

NoCall ==
    [pc |-> "idle", question |-> "", history |-> <<>>, top_k |-> 0,
     show_sources |-> FALSE, results |-> NoResults]

\* app.py:175-194  the inputs of a listener, as the components hold them when
\* the event is triggered
Triggered(question) ==
    [pc |-> "triggered", question |-> question, history |-> history, top_k |-> top_k,
     show_sources |-> show_sources, results |-> NoResults]

\* app.py:31-36  the call has the answer of the index
Queried(call, embed, ranking) ==
    [call EXCEPT !.pc = "queried",
                 !.results = QueryResults(index, call.top_k, embed, ranking)]

\* what the latest chat event did, from the result of its rag_answer call
EventRecord(op, question, r) ==
    [op |-> op, question |-> question, raised |-> r.raised, failed |-> r.failed,
     error |-> r.error, calls |-> r.calls, npoints |-> r.npoints, context |-> r.context]

NoEvent ==
    [op |-> "none", question |-> "", raised |-> FALSE, failed |-> FALSE, error |-> "",
     calls |-> <<>>, npoints |-> -1, context |-> <<>>]

\* app.py:175-178  send_btn.click is triggered: respond is called on the
\* values msg, chatbot, top_k and show_sources hold
respond ==
    /\ respond_call.pc = "idle"
    /\ Len(history) < 2 * MaxExchanges
    /\ \E message \in TypedMessages : respond_call' = Triggered(message)
    /\ UNCHANGED <<history, sources_box, top_k, show_sources, set_question_call, last>>
    /\ UNCHANGED <<splitVars, buildVars, indexVars>>

\* app.py:167, 31-36  encode and query_points of the call
respond_query ==
    /\ respond_call.pc = "triggered"
    /\ \E embed \in EmbedOutcomes, ranking \in Rankings(index) :
          respond_call' = Queried(respond_call, embed, ranking)
    /\ UNCHANGED <<history, sources_box, top_k, show_sources, set_question_call, last>>
    /\ UNCHANGED <<splitVars, buildVars, indexVars>>

\* app.py:167, 38-89, 178  the rest of rag_answer; what respond returns goes
\* to chatbot and sources_box (an event whose function raises leaves them as
\* they were)
respond_return ==
    /\ respond_call.pc = "queried"
    /\ \E llm \in LlmReplies :
         LET r == rag_answer(respond_call.question, respond_call.history,
                             respond_call.show_sources, respond_call.results, llm)
         IN  /\ history' = IF r.raised THEN history ELSE r.history
             /\ sources_box' = IF r.raised THEN sources_box ELSE r.sources
             /\ last' = EventRecord("respond", respond_call.question, r)
    /\ respond_call' = NoCall
    /\ UNCHANGED <<top_k, show_sources, set_question_call>>
    /\ UNCHANGED <<splitVars, buildVars, indexVars>>

\* app.py:189  btn1.click is triggered: set_question is called on the text of
\* the button and the values chatbot, top_k and show_sources hold
set_question ==
    /\ set_question_call.pc = "idle"
    /\ Len(history) < 2 * MaxExchanges
    /\ \E q \in QuickQuestions : set_question_call' = Triggered(q)
    /\ UNCHANGED <<history, sources_box, top_k, show_sources, respond_call, last>>
    /\ UNCHANGED <<splitVars, buildVars, indexVars>>

\* app.py:173, 31-36  encode and query_points of the call
set_question_query ==
    /\ set_question_call.pc = "triggered"
    /\ \E embed \in EmbedOutcomes, ranking \in Rankings(index) :
          set_question_call' = Queried(set_question_call, embed, ranking)
    /\ UNCHANGED <<history, sources_box, top_k, show_sources, respond_call, last>>
    /\ UNCHANGED <<splitVars, buildVars, indexVars>>

\* app.py:173, 38-89, 189  the rest of rag_answer; what set_question returns
\* goes to chatbot and sources_box
set_question_return ==
    /\ set_question_call.pc = "queried"
    /\ \E llm \in LlmReplies :
         LET r == rag_answer(set_question_call.question, set_question_call.history,
                             set_question_call.show_sources, set_question_call.results, llm)
         IN  /\ history' = IF r.raised THEN history ELSE r.history
             /\ sources_box' = IF r.raised THEN sources_box ELSE r.sources
             /\ last' = EventRecord("set_question", set_question_call.question, r)
    /\ set_question_call' = NoCall
    /\ UNCHANGED <<top_k, show_sources, respond_call>>
    /\ UNCHANGED <<splitVars, buildVars, indexVars>>

\* app.py:169-170, 187  clear_btn.click: clear has no input and does not wait
clear ==
    /\ history' = <<>>
    /\ sources_box' = EmptyText
    /\ last' = [NoEvent EXCEPT !.op = "clear"]
    /\ UNCHANGED <<top_k, show_sources, respond_call, set_question_call>>
    /\ UNCHANGED <<splitVars, buildVars, indexVars>>

\* the index before the loader has run
IndexInit ==
    /\ index = NoCollection
    /\ loader_pc = "idle"
    /\ ingested = <<>>
    /\ replaced = NoCollection
    /\ loader_exc = ""

\* the index a run of the loader has filled from catalog c
IndexLoaded(c) ==
    /\ index = [exists |-> TRUE, points |-> Upsert(<<>>, c)]
    /\ loader_pc = "loaded"
    /\ ingested = c
    /\ replaced = NoCollection
    /\ loader_exc = ""

\* app.py:123-161  the session as the page opens, the two controls where the
\* user leaves them for the conversation
ChatInit ==
    /\ history = <<>>
    /\ sources_box = Placeholder
    /\ top_k \in TopKValues
    /\ show_sources \in BOOLEAN
    /\ respond_call = NoCall
    /\ set_question_call = NoCall
    /\ last = NoEvent

\* the page before it is used (in the other specifications)
ChatIdle ==
    /\ history = <<>>
    /\ sources_box = Placeholder
    /\ top_k = DefaultTopK
    /\ show_sources = DefaultShowSources
    /\ respond_call = NoCall
    /\ set_question_call = NoCall
    /\ last = NoEvent

ServeIdle == IndexInit /\ ChatIdle

IndexNext ==
    \/ create_collection_delete
    \/ create_collection_create
    \/ ingest_chunks_read
    \/ ingest_chunks_upsert
    \/ pipeline_next_document
    \/ pipeline_enrich_chunk
    \/ pipeline_open
    \/ pipeline_dump

AnswerNext ==
    \/ create_collection_delete
    \/ create_collection_create
    \/ ingest_chunks_read
    \/ ingest_chunks_upsert
    \/ respond
    \/ respond_query
    \/ respond_return

ChatNext ==
    \/ respond
    \/ respond_query
    \/ respond_return
    \/ set_question
    \/ set_question_query
    \/ set_question_return
    \/ clear

(***************************************************************************)
(* Specifications.                                                         *)
(***************************************************************************)
\* calls of split_text on every text, chunk_size and overlap within the bounds
InitSplit == SplitInit /\ BuildIdle /\ ServeIdle

SpecSplit == InitSplit /\ [][SplitNext]_vars

\* runs of agentic_chunking_pipeline on every document list within the bounds,
\* with no chunks.json yet or with the one an earlier run saved
InitBuild == BuildInit /\ SplitIdle /\ ServeIdle

SpecBuild == InitBuild /\ [][BuildNext]_vars

\* runs of the loader interleaved with one run of the pipeline, which finds
\* no chunks.json or the one an earlier run saved
InitIndex ==
    /\ IndexInit
    /\ ChatIdle
    /\ SplitIdle
    /\ \E docs \in LoaderDocumentLists : RunStarted(docs)
    /\ catalog_file \in {NoFile, SavedFile(EarlierCatalog)}

SpecIndex == InitIndex /\ [][IndexNext]_vars

\* the events of one listener, one after the other, interleaved with runs of
\* the loader on one catalog
InitAnswer == IndexInit /\ ChatInit /\ SplitIdle /\ RunDone(ChatDocuments, ChatReply)

SpecAnswer == InitAnswer /\ [][AnswerNext]_vars

\* one session: the events of two answering listeners and of clear_btn, on a
\* loaded index
InitChat ==
    IndexLoaded(ChatCatalog) /\ ChatInit /\ SplitIdle /\ RunDone(ChatDocuments, ChatReply)

SpecChat == InitChat /\ [][ChatNext]_vars

(***************************************************************************)
(* Claims about split_text, checked under SpecSplit.                       *)
(***************************************************************************)
\* the words of the text a retained window covers: [start, min(end, len(words)))
SpanLo(sp) == sp[1]
SpanHi(sp) == IF sp[2] > Len(words) THEN Len(words) ELSE sp[2]

\* number of words two windows have in common
SharedWords(a, b) ==
    Cardinality({k \in SpanLo(a)..(SpanHi(a) - 1) : k >= SpanLo(b) /\ k < SpanHi(b)})

\* C6: a text of exactly chunk_size words (overlap < chunk_size) yields exactly
\* one chunk, the whole text joined by single blanks.  Stated for the texts
\* whose joined words pass the length threshold of line 52, each of which is
\* an instance of the claim.
C6_ExactSizeOneChunk ==
    ( /\ sp_pc = "returned"
      /\ Len(words) = chunk_size
      /\ overlap < chunk_size
      /\ KeepChunk(Join(words)) )
    => chunks = <<Join(words)>>

\* C7: every iteration of the loop moves start forward (with chunk_size <=
\* overlap the call is to be rejected, so no iteration may leave start where
\* it was or move it back).
C7_StartAdvances == [][split_text_iterate => start' > start]_vars

\* C8: for chunk_size > overlap the retained chunks start at strictly
\* increasing word indices and two consecutive retained chunks have exactly
\* `overlap` words in common, the last chunk included.  Stated for retained
\* chunks that come from adjacent windows (no dropped window between them),
\* each of which is an instance of the claim.
C8_OverlapExact ==
    chunk_size > overlap =>
        \A i \in 1..(Len(spans) - 1) :
            /\ SpanLo(spans[i]) < SpanLo(spans[i + 1])
            /\ SpanLo(spans[i + 1]) = Advance(SpanLo(spans[i]), chunk_size, overlap)
               => SharedWords(spans[i], spans[i + 1]) = overlap

(***************************************************************************)
(* Claims about enrich_chunk and agentic_chunking_pipeline, checked under  *)
(* SpecBuild.                                                              *)
(***************************************************************************)
\* the reply parses into an object holding exactly the five fields
FiveFieldReply(reply) ==
    /\ reply.status = "ok"
    /\ reply.doc.type = "object"
    /\ DOMAIN reply.doc.members = Fields

\* the metadata a catalog entry carries
MetadataOf(entry) ==
    [title |-> entry.title, summary |-> entry.summary, keywords |-> entry.keywords,
     category |-> entry.category, importance |-> entry.importance]

\* C3: whenever the language-model call fails or its reply does not parse into
\* the five-field structure, the metadata stored for that chunk is exactly the
\* fallback: "General Information", the first 100 characters of the chunk,
\* no keywords, "General", 5.
C3_FallbackExact ==
    ( /\ pb_pc # "crashed"
      /\ all_chunks # <<>>
      /\ ~FiveFieldReply(last_reply) )
    => LET entry == all_chunks[Len(all_chunks)]
       IN  MetadataOf(entry) =
               [title |-> "General Information",
                summary |-> Prefix(entry.text, 100),
                keywords |-> <<>>,
                category |-> "General",
                importance |-> 5]

\* C4: no enrichment outcome halts the build: the run never ends on an
\* uncaught exception, and once saved the catalog holds one entry per raw
\* chunk the segmenter returned.
C4_BuildCompletes ==
    /\ pb_pc # "crashed"
    /\ pb_pc = "done" => Len(catalog_file.chunks) = Len(emitted)

\* C5: the ids in the catalog are 0..N-1 in document order then chunk order,
\* N the number of raw chunks split_text returned over all documents: entry
\* number i (from 1) has id i-1 and the source of the i-th raw chunk, and the
\* saved catalog has exactly N entries.
C5_IdsContiguous ==
    /\ Len(all_chunks) <= Len(emitted)
    /\ \A i \in 1..Len(all_chunks) :
          /\ all_chunks[i].id = i - 1
          /\ all_chunks[i].source = emitted[i]
    /\ pb_pc = "done" =>
          /\ catalog_file = SavedFile(all_chunks)
          /\ Len(all_chunks) = Len(emitted)

\* a saved catalog of three or more chunks from two documents, one of which
\* was split in two
C5_Witness ==
    /\ pb_pc = "done"
    /\ Len(catalog_file.chunks) >= 3
    /\ \E i \in 1..(Len(catalog_file.chunks) - 1) :
          catalog_file.chunks[i].source # catalog_file.chunks[i + 1].source
    /\ \E i \in 1..(Len(catalog_file.chunks) - 1) :
          catalog_file.chunks[i].source = catalog_file.chunks[i + 1].source

(***************************************************************************)
(* Claim about the index loader, checked under SpecIndex.                  *)
(***************************************************************************)
\* C10: create_collection then ingest_chunks on a catalog, from any prior
\* index, ends with the index holding exactly one point per chunk of the
\* catalog it read, under the chunk's id, with payload text, title, summary,
\* keywords, category, importance and source of that chunk; between the two
\* the collection is empty.  The loaded index is a function of the catalog
\* alone, so a second load of the same catalog gives the same ids and
\* payloads and nothing of an earlier generation is left.  The run stops on
\* an exception only when chunks.json holds no catalog (it is absent, or a
\* run of the pipeline is writing it), never because of the prior index, and
\* then too nothing of the earlier generation is left.
C10_FullReplace ==
    /\ loader_pc = "crashed" =>
          /\ loader_exc \in {"FileNotFoundError", "JSONDecodeError"}
          /\ index = EmptyCollection
    /\ loader_pc \in {"created", "read"} => index = EmptyCollection
    /\ loader_pc = "loaded" =>
          /\ index.exists
          /\ DOMAIN index.points = {ingested[i].id : i \in 1..Len(ingested)}
          /\ \A i \in 1..Len(ingested) :
                index.points[ingested[i].id].payload =
                    [text |-> ingested[i].text,
                     title |-> ingested[i].title,
                     summary |-> ingested[i].summary,
                     keywords |-> ingested[i].keywords,
                     category |-> ingested[i].category,
                     importance |-> ingested[i].importance,
                     source |-> ingested[i].source]

\* a load that replaced a populated index of another catalog, an id of which
\* the new catalog does not have
C10_Witness ==
    /\ loader_pc = "loaded"
    /\ index.points # <<>>
    /\ replaced.exists
    /\ \E id \in DOMAIN replaced.points : id \notin DOMAIN index.points
    /\ \E id \in DOMAIN replaced.points :
          id \in DOMAIN index.points /\ replaced.points[id] # index.points[id]

(***************************************************************************)
(* Claims about rag_answer, checked under SpecAnswer.                      *)
(***************************************************************************)
\* the step on which the call of a listener returns
RespondReturns == respond_call.pc = "queried" /\ respond_call'.pc = "idle"
SetQuestionReturns == set_question_call.pc = "queried" /\ set_question_call'.pc = "idle"

\* C1: when the embedding call, the index query (a missing collection
\* included) or the language-model call raises, rag_answer does not raise:
\* what it returns is the history it was given plus a user turn with the
\* question and an assistant turn with the error indicator and the exception
\* message, and the empty source text.
C1_FailureIsATurn ==
    [][ (RespondReturns /\ last'.failed) =>
          /\ ~last'.raised
          /\ history' = respond_call.history \o
                            <<UserTurn(respond_call.question),
                              AssistantTurn(ErrorContent(last'.error))>>
          /\ sources_box' = EmptyText ]_vars

\* a question asked while the collection is missing, after an earlier exchange
C1_Witness ==
    /\ last.op = "respond"
    /\ last.failed
    /\ last.error = NotFoundMessage
    /\ ~index.exists
    /\ loader_pc = "deleted"
    /\ Len(history) = 4
    /\ history[4] = AssistantTurn(ErrorContent(NotFoundMessage))

\* C2: when the index query returns zero points, the call returns the history
\* it was given plus exactly the user turn with the question and the
\* assistant turn with the refusal message, returns the empty source text,
\* and makes no language-model call.
C2_NoContextRefusal ==
    [][ (RespondReturns /\ respond_call.results.status = "ok"
                        /\ respond_call.results.points = <<>>) =>
          /\ ~last'.failed
          /\ history' = respond_call.history \o
                            <<UserTurn(respond_call.question),
                              AssistantTurn(RefusalMessage)>>
          /\ sources_box' = EmptyText
          /\ \A i \in 1..Len(last'.calls) : last'.calls[i] # "invoke_model" ]_vars

\* a question answered with the refusal from the collection a rebuild has
\* just created and not yet filled
C2_Witness ==
    /\ last.op = "respond"
    /\ last.npoints = 0
    /\ index = EmptyCollection
    /\ loader_pc \in {"created", "read"}
    /\ history # <<>>
    /\ history[Len(history)] = AssistantTurn(RefusalMessage)

(***************************************************************************)
(* Claim about the session, checked under SpecChat.                        *)
(***************************************************************************)
ClearStep ==
    /\ <<history, sources_box, last>>' # <<history, sources_box, last>>
    /\ last'.op = "clear"

\* C9: the history of the session is append-only: an answer, whatever its
\* path, adds exactly a user turn with the question and then an assistant
\* turn to the history and keeps the earlier turns; clear gives the empty
\* history and the empty source text; nothing else changes the history, and
\* only clear shortens it.
C9_AppendOnly ==
    [][ /\ (RespondReturns \/ SetQuestionReturns) =>
             /\ Len(history') = Len(history) + 2
             /\ SubSeq(history', 1, Len(history)) = history
             /\ history'[Len(history) + 1] = UserTurn(last'.question)
             /\ history'[Len(history) + 2].role = "assistant"
        /\ ClearStep => (history' = <<>> /\ sources_box' = EmptyText)
        /\ Len(history') < Len(history) => ClearStep
        /\ ~(RespondReturns \/ SetQuestionReturns \/ ClearStep) => history' = history ]_vars

====
